---- MODULE Spec2Model ----
(***************************************************************************)
(* Model of src/app.py: the Streamlit script of the YouTube downloader.    *)
(* One run of the script is modelled as a sequence of steps (pc), because  *)
(* the download blocks inside the run and the session is observable while  *)
(* it does.  The external engine (yt-dlp), the filesystem (tempfile,       *)
(* shutil, os.path) and the st.cache_data store are modelled by the        *)
(* outcomes they can produce.                                              *)
(***************************************************************************)
EXTENDS Integers, Sequences, FiniteSets, TLC

(***************************************************************************)
(* Bounds of the model.                                                    *)
(***************************************************************************)
MaxDirs == 2        \* temp directories created over a behaviour
MaxTicks == 1       \* how many cache lifetimes the clock runs for
MaxFormats == 3     \* length of a format list given to the resolver
MaxBytes == 3       \* byte counts carried by progress events
MaxEvents == 2      \* progress events of one download

(***************************************************************************)
(* Program constants.                                                      *)
(***************************************************************************)
TTL == 600          \* @st.cache_data(ttl=600)
IdLen == 11         \* [\w\-]{11}

(***************************************************************************)
(* URLs are sequences of tokens: the literals the regex names are one      *)
(* token each, every other character is a token of its own.                *)
(***************************************************************************)
Schemes == {"http://", "https://"}
Www == "www."
HostPaths == {"youtube.com/watch?v=", "youtu.be/", "youtube.com/shorts/"}
IdChars == {"a", "Q", "w", "4", "9", "_", "-"}
Whitespace == {" "}

UrlEmpty == <<>>
UrlShortId == <<"https://", "youtu.be/", "a", "Q", "w", "4", "9", "_", "-", "a", "Q", "w">>
UrlWatch == <<"https://", "www.", "youtube.com/watch?v=",
              "a", "Q", "w", "4", "9", "_", "-", "a", "Q", "w", "4">>
UrlShortLink == <<" ", "youtu.be/", "9", "Q", "w", "4", "9", "_", "-", "a", "Q", "w", "4", "&", "t">>
URLS == {UrlEmpty, UrlShortId, UrlWatch, UrlShortLink}

RECURSIVE lstrip(_)
lstrip(s) == IF s # <<>> /\ Head(s) \in Whitespace THEN lstrip(Tail(s)) ELSE s

RECURSIVE rstrip(_)
rstrip(s) ==
    IF s # <<>> /\ s[Len(s)] \in Whitespace THEN rstrip(SubSeq(s, 1, Len(s) - 1)) ELSE s

strip(s) == rstrip(lstrip(s))

\* (https?://)?  and  (www\.)? : an optional literal at the head
SkipOptional(s, lits) == IF s # <<>> /\ Head(s) \in lits THEN Tail(s) ELSE s

\* the identifier's length is not checked
MatchesId_AnyLength(s) == s # <<>> /\ \A i \in 1..Len(s) : i <= IdLen => s[i] \in IdChars

\* [\w\-]{11} : at least IdLen identifier characters follow (no $ anchor)
MatchesId(s) == Len(s) >= IdLen /\ \A i \in 1..IdLen : s[i] \in IdChars

\* _YT_REGEX.search: anchored at the start by ^
YT_REGEX_search(s) ==
    LET a == SkipOptional(s, Schemes)
        b == SkipOptional(a, {Www})
    IN  /\ b # <<>>
        /\ Head(b) \in HostPaths
        /\ MatchesId(Tail(b))

is_valid_youtube_url(url) == YT_REGEX_search(strip(url))


(***************************************************************************)
(* Python values.  None and the empty dict are both the empty function:    *)
(* the script only ever tests them for truthiness.                         *)
(***************************************************************************)
None == <<>>
Truthy(x) == DOMAIN x # {}
NoDir == 0                          \* st.session_state["tmp_dir"] = None
DirIds == 1..MaxDirs                \* directory names, in order of creation
FileNames == {"video.mp4", "video.part"}
Path(d, f) == <<d, f>>              \* os.path.join(tmp_dir, name)

\* dict.get(key, default)
Get(d, k, default) == IF k \in DOMAIN d THEN d[k] ELSE default

(***************************************************************************)
(* The external engine's metadata for a URL (ydl.extract_info).  Fields    *)
(* may be absent.                                                          *)
(***************************************************************************)
EngineInfo(u) ==
    IF u = UrlWatch
    THEN [title |-> "Watch", thumbnail |-> "w.jpg", formats |-> <<>>,
          duration |-> 212, uploader |-> "Chan", view_count |-> 7]
    ELSE [thumbnail |-> "s.jpg", duration |-> 30]

\* the dict get_video_info builds from the engine's info
NormalizeInfo(info) ==
    [title |-> Get(info, "title", "Unknown Title"),
     thumbnail |-> Get(info, "thumbnail", ""),
     formats |-> Get(info, "formats", <<>>),
     duration |-> Get(info, "duration", 0),
     uploader |-> Get(info, "uploader", "Unknown"),
     view_count |-> Get(info, "view_count", 0)]

ExtractOutcomes == {"ok", "DownloadError", "Exception"}

\* the body of get_video_info: what it returns for an engine outcome
get_video_info_body(u, outcome) ==
    IF outcome = "ok" THEN NormalizeInfo(EngineInfo(u)) ELSE None

(***************************************************************************)
(* st.cache_data(ttl=600): a store keyed by the argument, holding the      *)
(* returned value (None included) and the time it was stored.              *)
(***************************************************************************)
NoEntry == [present |-> FALSE, value |-> None, ts |-> 0]
Entry(v, t) == [present |-> TRUE, value |-> v, ts |-> t]

\* an entry never expires
CacheHit_NoExpiry(c, u, t) == c[u].present

\* an entry is served while its age is below the ttl
CacheHit(c, u, t) == c[u].present /\ t - c[u].ts < TTL

\* the decorator stores whatever the function returned
CacheStore(c, u, v, t) == [c EXCEPT ![u] = Entry(v, t)]

VARIABLES
    pc,               \* position of the script run; "wait" between runs
    url,              \* st.text_input value of the current run
    clicked,          \* the Start Download trigger of the current run
    video_info, downloaded_file, download_ready, tmp_dir, last_url,  \* st.session_state
    cache,            \* st.cache_data store of get_video_info
    now,              \* clock, seconds
    made,             \* how many directories mkdtemp has created
    dirs,             \* temp directories existing on the filesystem
    files,            \* files[d]: names of the files in directory d
    file_path,        \* result of download_content in the current run
    engineOutcome,    \* how the engine's download call of the current run ended
    extractCalls,     \* engine extract_info invocations in the current run
    downloadCalls,    \* engine download invocations in the current run
    uncaught,         \* an exception escaped download_content
    formats, resolutions,                 \* resolver: input and result
    hookEvent, hookCount,                 \* last progress event, events so far
    progress_bar, status_text             \* progress display of one download

sessionVars == <<video_info, downloaded_file, download_ready, tmp_dir, last_url>>
fsVars == <<made, dirs, files>>
runVars == <<file_path, engineOutcome, extractCalls, downloadCalls, uncaught>>
appVars == <<pc, url, clicked, sessionVars, cache, now, fsVars, runVars>>
resVars == <<formats, resolutions>>
hookVars == <<hookEvent, hookCount, progress_bar, status_text>>
vars == <<appVars, resVars, hookVars>>
\* what the script's steps leave alone
asideVars == <<resVars, hookVars>>


(***************************************************************************)
(* Filesystem: fs = [dirs, files].                                         *)
(***************************************************************************)
FS == [dirs |-> dirs, files |-> files]

\* os.path.isdir / os.path.isfile
isdir(fs, d) == d \in fs.dirs
isfile(fs, p) == Len(p) = 2 /\ p[1] \in fs.dirs /\ p[2] \in fs.files[p[1]]

\* shutil.rmtree(d, ignore_errors=True): the tree is removed, or an error
\* is swallowed and the directory stays with whatever was not yet removed
rmtree_results(fs, d) ==
    {[dirs |-> fs.dirs \ {d}, files |-> [fs.files EXCEPT ![d] = {}]]}
    \cup {[dirs |-> fs.dirs, files |-> [fs.files EXCEPT ![d] = rest]] :
              rest \in SUBSET fs.files[d]}

\* _cleanup_temp, filesystem part: what the filesystem can be afterwards
cleanup_temp_fs(fs, old_dir) ==
    IF old_dir # NoDir /\ isdir(fs, old_dir) THEN rmtree_results(fs, old_dir) ELSE {fs}

\* tempfile.mkdtemp(prefix="ytdl_"): a new empty directory under a name never
\* used before (n directories were made so far)
mkdtemp(fs, n) ==
    [dir |-> n + 1,
     fs |-> [dirs |-> fs.dirs \cup {n + 1}, files |-> [fs.files EXCEPT ![n + 1] = {}]]]

\* list(Path(tmp_dir).iterdir()): the entries in an order the OS chooses
Listings(S) ==
    {l \in [1..Cardinality(S) -> S] : {l[i] : i \in 1..Cardinality(S)} = S}

(***************************************************************************)
(* download_content, after the engine call: the value returned for the    *)
(* way the engine call ended and the listing of tmp_dir.  raised tells     *)
(* whether an exception leaves the function.                               *)
(***************************************************************************)
DownloadOutcomes == {"ok", "DownloadError", "Exception"}

\* only the engine's DownloadError is caught
download_content_NarrowExcept(outcome, d, listing) ==
    IF outcome = "ok"
    THEN IF listing # <<>>
         THEN [raised |-> FALSE, value |-> Path(d, listing[1])]
         ELSE [raised |-> FALSE, value |-> None]
    ELSE [raised |-> outcome = "Exception", value |-> None]

download_content(outcome, d, listing) ==
    IF outcome = "ok"
    THEN IF listing # <<>>
         THEN [raised |-> FALSE, value |-> Path(d, listing[1])]
         ELSE [raised |-> FALSE, value |-> None]
    ELSE [raised |-> FALSE, value |-> None]

\* the result is recorded without looking at it
DownloadSucceeded_Unchecked(fs, p) == TRUE

\* line 470: if file_path and os.path.isfile(file_path)
DownloadSucceeded(fs, p) == Truthy(p) /\ isfile(fs, p)

(***************************************************************************)
(* The session state machine, read off the session fields.                 *)
(***************************************************************************)
Ready == download_ready /\ Truthy(downloaded_file)
Status ==
    IF pc \in {"download", "result"} THEN "downloading"
    ELSE IF Ready THEN "ready"
    ELSE IF tmp_dir # NoDir THEN "failed"
    ELSE "idle"

(***************************************************************************)
(* Initial state: a fresh session (lines 386-394), an empty cache.         *)
(***************************************************************************)
AppIdle ==
    /\ url = UrlEmpty
    /\ clicked = FALSE
    /\ video_info = None
    /\ downloaded_file = None
    /\ download_ready = FALSE
    /\ tmp_dir = NoDir
    /\ last_url = UrlEmpty
    /\ cache = [u \in URLS |-> NoEntry]
    /\ now = 0
    /\ made = 0
    /\ dirs = {}
    /\ files = [d \in DirIds |-> {}]
    /\ file_path = None
    /\ engineOutcome = "none"
    /\ extractCalls = 0
    /\ downloadCalls = 0
    /\ uncaught = FALSE

ResIdle == formats = <<>> /\ resolutions = <<>>
HookIdle == hookEvent = <<>> /\ hookCount = 0 /\ progress_bar = <<>> /\ status_text = ""

Init == pc = "wait" /\ AppIdle /\ ResIdle /\ HookIdle

(***************************************************************************)
(* Time passes between runs.                                               *)
(***************************************************************************)
\* just short of the cache's ttl, and just past it
TickSteps == {TTL - 1, TTL + 1}

Tick(d) ==
    /\ pc = "wait"
    /\ now + d <= MaxTicks * (TTL + 1)
    /\ now' = now + d
    /\ UNCHANGED <<pc, url, clicked, sessionVars, cache, fsVars, runVars>>
    /\ UNCHANGED asideVars

(***************************************************************************)
(* A widget event reruns the script from the top with the widget values.   *)
(***************************************************************************)
Rerun(u, c) ==
    /\ pc = "wait"
    /\ c => made < MaxDirs
    /\ url' = u
    /\ clicked' = c
    /\ file_path' = None
    /\ engineOutcome' = "none"
    /\ extractCalls' = 0
    /\ downloadCalls' = 0
    /\ uncaught' = FALSE
    /\ pc' = "reset"
    /\ UNCHANGED <<sessionVars, cache, now, fsVars>>
    /\ UNCHANGED asideVars

(***************************************************************************)
(* Lines 403-407: reset state when the URL changes.                        *)
(***************************************************************************)
ResetOnUrlChange ==
    /\ pc = "reset"
    /\ \/ /\ url # last_url
          /\ \E fs \in cleanup_temp_fs(FS, tmp_dir) :
                 /\ dirs' = fs.dirs
                 /\ files' = fs.files
          /\ UNCHANGED made
          /\ tmp_dir' = NoDir
          /\ downloaded_file' = None
          /\ download_ready' = FALSE
          /\ video_info' = None
          /\ last_url' = url
       \/ /\ url = last_url
          /\ UNCHANGED <<sessionVars, fsVars>>
    /\ pc' = "fetch"
    /\ UNCHANGED <<url, clicked, cache, now, runVars>>
    /\ UNCHANGED asideVars


(***************************************************************************)
(* Lines 409-418: validate the URL, fetch its metadata through the cache.  *)
(***************************************************************************)
\* the run ends: its trigger value is consumed
EndRun == pc' = "wait" /\ clicked' = FALSE

\* get_video_info(url) under st.cache_data: a hit replays the stored value,
\* a miss runs the body (one engine call) and stores what it returned
GetVideoInfo(info) ==
    \/ /\ CacheHit(cache, url, now)
       /\ info = cache[url].value
       /\ UNCHANGED <<cache, extractCalls>>
    \/ /\ ~CacheHit(cache, url, now)
       /\ \E outcome \in ExtractOutcomes :
              /\ info = get_video_info_body(url, outcome)
              /\ cache' = CacheStore(cache, url, info, now)
       /\ extractCalls' = extractCalls + 1

FetchInfo ==
    /\ pc = "fetch"
    /\ \/ /\ ~Truthy(url)                       \* if url:
          /\ EndRun
          /\ UNCHANGED <<video_info, cache, extractCalls>>
       \/ /\ Truthy(url)
          /\ ~is_valid_youtube_url(url)         \* st.error, no fetch
          /\ EndRun
          /\ UNCHANGED <<video_info, cache, extractCalls>>
       \/ /\ Truthy(url)
          /\ is_valid_youtube_url(url)
          /\ \E info \in {None} \cup {cache[url].value}
                         \cup {get_video_info_body(url, o) : o \in ExtractOutcomes} :
                 /\ GetVideoInfo(info)
                 /\ IF Truthy(info)
                    THEN video_info' = info /\ pc' = "button"
                    ELSE UNCHANGED video_info /\ EndRun
    /\ pc' # "wait" => UNCHANGED clicked
    /\ UNCHANGED <<url, downloaded_file, download_ready, tmp_dir, last_url,
                   now, fsVars, file_path, engineOutcome, downloadCalls, uncaught>>
    /\ UNCHANGED asideVars

\* the trigger removes the old directory but keeps the old result fields
StartDownload_KeepsResult ==
    /\ pc = "button"
    /\ \/ /\ clicked
          /\ \E fs \in cleanup_temp_fs(FS, tmp_dir) :
                 LET m == mkdtemp(fs, made)
                 IN  /\ dirs' = m.fs.dirs
                     /\ files' = m.fs.files
                     /\ tmp_dir' = m.dir
          /\ made' = made + 1
          /\ UNCHANGED <<downloaded_file, download_ready>>
          /\ pc' = "download"
       \/ /\ ~clicked
          /\ pc' = "offer"
          /\ UNCHANGED <<downloaded_file, download_ready, tmp_dir, fsVars>>
    /\ UNCHANGED <<url, clicked, video_info, last_url, cache, now, runVars>>
    /\ UNCHANGED asideVars

(***************************************************************************)
(* Lines 455-463: the Start Download trigger.                              *)
(***************************************************************************)
StartDownload ==
    /\ pc = "button"
    /\ \/ /\ clicked
          /\ \E fs \in cleanup_temp_fs(FS, tmp_dir) :
                 LET m == mkdtemp(fs, made)
                 IN  /\ dirs' = m.fs.dirs
                     /\ files' = m.fs.files
                     /\ tmp_dir' = m.dir
          /\ made' = made + 1
          /\ downloaded_file' = None
          /\ download_ready' = FALSE
          /\ pc' = "download"
       \/ /\ ~clicked
          /\ pc' = "offer"
          /\ UNCHANGED <<downloaded_file, download_ready, tmp_dir, fsVars>>
    /\ UNCHANGED <<url, clicked, video_info, last_url, cache, now, runVars>>
    /\ UNCHANGED asideVars

(***************************************************************************)
(* Lines 310-325: the engine downloads into tmp_dir (ydl.download), then   *)
(* download_content resolves the output file.                              *)
(***************************************************************************)
DownloadContent ==
    /\ pc = "download"
    /\ \E outcome \in DownloadOutcomes, written \in SUBSET FileNames :
           /\ files' = [files EXCEPT ![tmp_dir] = @ \cup written]
           /\ engineOutcome' = outcome
           /\ \E listing \in Listings(files'[tmp_dir]) :
                  LET r == download_content(outcome, tmp_dir, listing)
                  IN  /\ file_path' = r.value
                      /\ uncaught' = r.raised
                      /\ pc' = IF r.raised THEN "wait" ELSE "result"
    /\ downloadCalls' = downloadCalls + 1
    /\ UNCHANGED <<url, clicked, sessionVars, cache, now, made, dirs, extractCalls>>
    /\ UNCHANGED asideVars

(***************************************************************************)
(* Lines 470-476: record the outcome in the session.                       *)
(***************************************************************************)
FinishDownload ==
    /\ pc = "result"
    /\ IF DownloadSucceeded(FS, file_path)
       THEN /\ downloaded_file' = file_path
            /\ download_ready' = TRUE
       ELSE UNCHANGED <<downloaded_file, download_ready>>
    /\ pc' = "offer"
    /\ UNCHANGED <<url, clicked, video_info, tmp_dir, last_url, cache, now, fsVars, runVars>>
    /\ UNCHANGED asideVars

(***************************************************************************)
(* Lines 478-491: offer the file; the run ends.                            *)
(***************************************************************************)
OfferFile ==
    /\ pc = "offer"
    /\ EndRun
    /\ file_path' = None                 \* the run's locals are gone
    /\ engineOutcome' = "none"
    /\ UNCHANGED <<url, sessionVars, cache, now, fsVars, extractCalls, downloadCalls, uncaught>>
    /\ UNCHANGED asideVars

Next ==
    \/ \E d \in TickSteps : Tick(d)
    \/ \E u \in URLS, c \in BOOLEAN : Rerun(u, c)
    \/ ResetOnUrlChange
    \/ FetchInfo
    \/ StartDownload
    \/ DownloadContent
    \/ FinishDownload
    \/ OfferFile

Spec == Init /\ [][Next]_vars


(***************************************************************************)
(* Claims about the session and the metadata cache, checked under Spec.    *)
(***************************************************************************)

\* C1: at most one temp directory created by the session exists at any
\* time, and 'downloading' is never entered while a temp directory of an
\* earlier attempt still exists.
C1_AtMostOneTempDir ==
    /\ Cardinality(dirs) <= 1
    /\ Status = "downloading" => dirs = {tmp_dir}

\* C2: whenever the active URL changes, the temp directory that was current
\* before the change no longer exists afterwards, and temp_directory,
\* output_file, the ready flag and the stored metadata are cleared.
C2_UrlChangeReturnsToIdle ==
    [][(pc = "reset" /\ url # last_url) =>
           /\ tmp_dir \notin dirs'
           /\ tmp_dir' = NoDir
           /\ downloaded_file' = None
           /\ download_ready' = FALSE
           /\ video_info' = None]_vars

\* C3: a download attempt ends in 'ready', with output_file the returned
\* path, exactly when the orchestrator returned a path that exists;
\* otherwise it ends in 'failed' with no output_file and the ready flag
\* false.  Nothing else is reachable at the end of an attempt.
C3_AttemptOutcome ==
    (pc = "offer" /\ downloadCalls = 1) =>
        /\ Status \in {"ready", "failed"}
        /\ Status = "ready" <=> (Truthy(file_path) /\ isfile(FS, file_path))
        /\ Status = "ready" => downloaded_file = file_path /\ download_ready
        /\ Status = "failed" => downloaded_file = None /\ ~download_ready

C3_Witness ==
    /\ pc = "offer"
    /\ downloadCalls = 1
    /\ engineOutcome = "ok"
    /\ Status = "ready"

\* C4: a failed metadata extraction is not cached: the next get_metadata
\* call for the same URL within the ttl invokes the engine again.
C4_FailureNotCached ==
    [][(/\ pc = "fetch"
        /\ is_valid_youtube_url(url)
        /\ cache[url].present
        /\ ~Truthy(cache[url].value)
        /\ now - cache[url].ts < TTL) => extractCalls' = extractCalls + 1]_vars

\* C5: after a successful fetch, a call for the same URL string made less
\* than 600 seconds later returns the stored metadata without invoking the
\* engine; a call made more than 600 seconds later invokes the engine
\* again; a URL without an entry of its own never reuses another's.
C5_CacheWindow ==
    [][(pc = "fetch" /\ is_valid_youtube_url(url)) =>
           /\ (/\ cache[url].present
               /\ Truthy(cache[url].value)
               /\ now - cache[url].ts < TTL)
              => /\ extractCalls' = extractCalls
                 /\ cache' = cache
                 /\ video_info' = cache[url].value
           /\ (cache[url].present /\ now - cache[url].ts > TTL)
              => extractCalls' = extractCalls + 1
           /\ ~cache[url].present => extractCalls' = extractCalls + 1
           /\ \A u \in URLS \ {url} : cache'[u] = cache[u]]_vars

C5_Witness ==
    /\ pc = "button"
    /\ extractCalls = 0
    /\ now = TTL - 1
    /\ cache[url].ts = 0
    /\ video_info = cache[url].value
    /\ \E u \in URLS \ {url} : cache[u].present

\* C6: download never lets an exception out.  If the engine call raised,
\* or returned with target_directory empty, the result is a Failure; if it
\* returned with exactly one file there, the result is that file's path;
\* a returned path is always an entry of target_directory.
C6_DownloadResult ==
    /\ ~uncaught
    /\ downloadCalls = 1 => pc \in {"result", "offer", "wait"}
    /\ pc = "result" =>
        /\ engineOutcome # "ok" => file_path = None
        /\ (engineOutcome = "ok" /\ files[tmp_dir] = {}) => file_path = None
        /\ \A f \in FileNames :
               (engineOutcome = "ok" /\ files[tmp_dir] = {f}) => file_path = Path(tmp_dir, f)
        /\ Truthy(file_path) => file_path[1] = tmp_dir /\ file_path[2] \in files[tmp_dir]

C6_Witness ==
    /\ pc = "result"
    /\ engineOutcome = "ok"
    /\ files[tmp_dir] = {"video.mp4"}
    /\ file_path = Path(tmp_dir, "video.mp4")

\* C7: no automatic retries: a trigger invokes the engine's download at most
\* once; a failed session stays failed until a new trigger or a URL change;
\* and the new attempt removes the failed attempt's temp directory before
\* it creates its own.
C7_NoRetryAndTeardown ==
    [][/\ downloadCalls' <= 1
       /\ (Status = "failed" /\ Status' # "failed") =>
              \/ pc = "reset" /\ url # last_url
              \/ pc = "button" /\ clicked
       /\ (Status = "failed" /\ pc = "button" /\ clicked) =>
              /\ tmp_dir \notin dirs'
              /\ Status' = "downloading"]_vars

\* the URLs of the model without the canonical shape: the empty string and
\* a link with a 10-character identifier
RejectedUrls == {UrlEmpty, UrlShortId}

\* C8: for a URL that is_valid rejects (the empty string included) the
\* engine is never invoked and the session stays idle; a download is only
\* triggered for a URL that passed validation and whose metadata was
\* fetched.
C8_InvalidUrlNoEngine ==
    /\ \A u \in RejectedUrls : ~cache[u].present
    /\ url \in RejectedUrls =>
        /\ extractCalls = 0
        /\ downloadCalls = 0
        /\ pc \in {"wait", "reset", "fetch"}
        /\ pc # "reset" => Status = "idle" /\ video_info = None
    /\ (pc \in {"download", "result"} \/ downloadCalls > 0) =>
        /\ url \notin RejectedUrls
        /\ Truthy(video_info)
        /\ video_info = cache[url].value

C8_Witness ==
    /\ url = UrlShortId
    /\ pc = "wait"
    /\ last_url = url
    /\ \E u \in URLS : cache[u].present


(***************************************************************************)
(* The resolution resolver (lines 218-230), applied to format lists of     *)
(* the engine.  A descriptor is a dict whose keys may be absent.           *)
(***************************************************************************)
Heights == {0, 360, 480, 720}
Vcodecs == {"none", "avc1"}

\* dict d with key k set to v
With(d, k, v) == [x \in DOMAIN d \cup {k} |-> IF x = k THEN v ELSE d[x]]

Descriptors ==
    LET byCodec == {<<>>} \cup {[vcodec |-> v] : v \in Vcodecs}
    IN  byCodec \cup {With(d, "height", h) : d \in byCodec, h \in Heights}

FormatLists == UNION {[1..n -> Descriptors] : n \in 0..MaxFormats}

\* fmt.get("vcodec", "none") != "none" and fmt.get("height")
HasVideoHeight(fmt) ==
    /\ Get(fmt, "vcodec", "none") # "none"
    /\ Get(fmt, "height", 0) # 0

SetMax(S) == CHOOSE m \in S : \A x \in S : x <= m
SetMin(S) == CHOOSE m \in S : \A x \in S : m <= x

\* sorted(heights): ascending
RECURSIVE SortedAscending(_)
SortedAscending(S) ==
    IF S = {} THEN <<>> ELSE <<SetMin(S)>> \o SortedAscending(S \ {SetMin(S)})

\* sorted(heights, reverse=True)
RECURSIVE SortedDescending(_)
SortedDescending(S) ==
    IF S = {} THEN <<>> ELSE <<SetMax(S)>> \o SortedDescending(S \ {SetMax(S)})

\* f"{h}p"
Label(h) == ToString(h) \o "p"

get_available_resolutions(fmts) ==
    LET heights == {fmts[i]["height"] : i \in {j \in 1..Len(fmts) : HasVideoHeight(fmts[j])}}
        sorted == SortedDescending(heights)
    IN  [i \in 1..Len(sorted) |-> Label(sorted[i])]

InitRes ==
    /\ pc = "resolver"
    /\ AppIdle
    /\ HookIdle
    /\ formats \in FormatLists
    /\ resolutions = <<>>

Resolve ==
    /\ pc = "resolver"
    /\ resolutions' = get_available_resolutions(formats)
    /\ pc' = "resolved"
    /\ UNCHANGED <<formats, url, clicked, sessionVars, cache, now, fsVars, runVars, hookVars>>

NextRes == Resolve

SpecRes == InitRes /\ [][NextRes]_vars


SpecExample ==
    <<[vcodec |-> "avc1", height |-> 720], [vcodec |-> "avc1", height |-> 480],
      [vcodec |-> "avc1", height |-> 720], [vcodec |-> "avc1"],
      [vcodec |-> "avc1", height |-> 360], [vcodec |-> "none"]>>

HeightOfLabel(l) == CHOOSE h \in Heights : ToString(h) \o "p" = l

\* C9: available_resolutions returns exactly the labels "{h}p" of the
\* distinct heights of the descriptors that have a video stream and a
\* height, in strictly descending numeric order and without duplicates;
\* audio-only and height-less descriptors contribute nothing, and the
\* result is empty when nothing qualifies.
C9_Resolutions ==
    pc = "resolved" =>
        LET video == {i \in 1..Len(formats) :
                          /\ "vcodec" \in DOMAIN formats[i]
                          /\ formats[i].vcodec # "none"
                          /\ "height" \in DOMAIN formats[i]
                          /\ formats[i].height > 0}
            H == {formats[i].height : i \in video}
            n == Len(resolutions)
        IN  /\ n = Cardinality(H)
            /\ {resolutions[i] : i \in 1..n} = {ToString(h) \o "p" : h \in H}
            /\ \A i, j \in 1..n :
                   i < j => HeightOfLabel(resolutions[i]) > HeightOfLabel(resolutions[j])
            /\ video = {} => resolutions = <<>>
            /\ get_available_resolutions(SpecExample) = <<"720p", "480p", "360p">>

C9_Witness ==
    /\ pc = "resolved"
    /\ Len(formats) = 3
    /\ \E i \in 1..3 : ~HasVideoHeight(formats[i])
    /\ resolutions = <<"720p", "360p">>


(***************************************************************************)
(* The progress hook (lines 262-273) on the progress display of one        *)
(* download.  An event is the engine's dict; a key holding None is the     *)
(* same to the hook as an absent key.  A fraction is kept as num/den.      *)
(***************************************************************************)
HookStatuses == {"downloading", "finished", "error"}
ByteCounts == 0..MaxBytes

HookEvents ==
    LET s0 == {[status |-> s] : s \in HookStatuses}
        s1 == s0 \cup {With(d, "total_bytes", n) : d \in s0, n \in ByteCounts}
        s2 == s1 \cup {With(d, "total_bytes_estimate", n) : d \in s1, n \in ByteCounts}
    IN  s2 \cup {With(d, "downloaded_bytes", n) : d \in s2, n \in ByteCounts}

\* a or b, on numbers (None counts as 0)
PyOr(a, b) == IF a # 0 THEN a ELSE b

Fraction(n, d) == [num |-> n, den |-> d]
One == Fraction(1, 1)

\* min(downloaded / total, 1.0), total > 0
MinWithOne_Unclamped(downloaded, total) == Fraction(downloaded, total)

MinWithOne(downloaded, total) ==
    IF downloaded > total THEN One ELSE Fraction(downloaded, total)

Bar(frac, text) == [fraction |-> frac, text |-> text]

\* st.progress(0, text="Preparing...") and st.empty(), lines 462-463
BarPreparing == Bar(Fraction(0, 1), "Preparing")
StatusEmpty == ""
StatusSizeUnknown == "Downloading (size unknown)"

\* _progress_hook(d): the display after the event
progress_hook(d, bar, text) ==
    IF d.status = "downloading"
    THEN LET total == PyOr(PyOr(Get(d, "total_bytes", 0), Get(d, "total_bytes_estimate", 0)), 0)
             downloaded == Get(d, "downloaded_bytes", 0)
         IN  IF total > 0
             THEN [bar |-> Bar(MinWithOne(downloaded, total), "Downloading"), text |-> text]
             ELSE [bar |-> bar, text |-> StatusSizeUnknown]
    ELSE IF d.status = "finished"
    THEN [bar |-> Bar(One, "Download complete - processing"), text |-> text]
    ELSE [bar |-> bar, text |-> text]

InitHook ==
    /\ pc = "hook"
    /\ AppIdle
    /\ ResIdle
    /\ hookEvent = <<>>
    /\ hookCount = 0
    /\ progress_bar = BarPreparing
    /\ status_text = StatusEmpty

ProgressHook ==
    /\ pc = "hook"
    /\ hookCount < MaxEvents
    /\ \E d \in HookEvents :
           LET r == progress_hook(d, progress_bar, status_text)
           IN  /\ hookEvent' = d
               /\ progress_bar' = r.bar
               /\ status_text' = r.text
    /\ hookCount' = hookCount + 1
    /\ UNCHANGED <<pc, url, clicked, sessionVars, cache, now, fsVars, runVars, resVars>>

NextHook == ProgressHook

SpecHook == InitHook /\ [][NextHook]_vars

KnownTotal(d) ==
    IF "total_bytes" \in DOMAIN d /\ d.total_bytes > 0 THEN d.total_bytes
    ELSE IF "total_bytes_estimate" \in DOMAIN d /\ d.total_bytes_estimate > 0
    THEN d.total_bytes_estimate
    ELSE 0

\* C10: every fraction reported to the progress display lies in [0,1]: a
\* 'downloading' event with known total size reports downloaded / total,
\* capped at 1; one with unknown (absent or zero) total size reports only
\* the indeterminate signal and no fraction; a 'finished' event reports
\* fraction 1 with a processing phase.
C10_ProgressFraction ==
    [][hookCount' = hookCount + 1 =>
         LET d == hookEvent'
             t == KnownTotal(d)
             got == IF "downloaded_bytes" \in DOMAIN d THEN d.downloaded_bytes ELSE 0
             f == progress_bar'.fraction
         IN  /\ f.den > 0 /\ 0 <= f.num /\ f.num <= f.den
             /\ (d.status = "downloading" /\ t > 0) =>
                    /\ got <= t => f.num * t = got * f.den
                    /\ got > t => f.num = f.den
                    /\ progress_bar'.text = "Downloading"
                    /\ status_text' = status_text
             /\ (d.status = "downloading" /\ t = 0) =>
                    /\ progress_bar' = progress_bar
                    /\ status_text' = StatusSizeUnknown
             /\ d.status = "finished" =>
                    /\ f.num = f.den
                    /\ progress_bar'.text = "Download complete - processing"]_vars

C10_Witness ==
    /\ hookCount > 1
    /\ hookEvent.status = "downloading"
    /\ "total_bytes" \notin DOMAIN hookEvent
    /\ "total_bytes_estimate" \in DOMAIN hookEvent
    /\ "downloaded_bytes" \in DOMAIN hookEvent
    /\ hookEvent.total_bytes_estimate > 0
    /\ hookEvent.downloaded_bytes > hookEvent.total_bytes_estimate
    /\ progress_bar = Bar(One, "Downloading")


\* C11: whenever the session is ready (ready flag true and output_file
\* set), temp_directory is set, that directory exists, and output_file is
\* a file inside that current directory, never one of an earlier attempt
\* or of a previous URL.
C11_ReadyFileInCurrentDir ==
    Ready =>
        /\ tmp_dir # NoDir
        /\ tmp_dir \in dirs
        /\ Len(downloaded_file) = 2
        /\ downloaded_file[1] = tmp_dir
        /\ downloaded_file[2] \in files[tmp_dir]

\* ready after a second attempt, at the point where the file is offered
C11_Witness ==
    /\ pc = "offer"
    /\ Ready
    /\ made = 2
    /\ tmp_dir = 2
    /\ downloaded_file[1] = 2

====
